---- MODULE Spec2Model ----
(***************************************************************************)
(* Process lifecycle manager of app.py: the request handlers start, stop,  *)
(* restart, delete and create (server_action, dashboard), the helpers      *)
(* start_server, stop_server, force_delete_directory, save_server_config   *)
(* and load_server_config, the global table `processes`, and the monitor   *)
(* thread that start_server launches for every spawned process.  The read  *)
(* only query get_logs and the entrypoint resolver find_main_file are       *)
(* functions of one file and one directory; they have specifications of    *)
(* their own (LogSpec, ResolveSpec) over that input.                        *)
(*                                                                         *)
(* Flask serves every request in a thread of its own (app.run, threaded),  *)
(* so the handlers interleave at every access to shared state: the table   *)
(* `processes`, the server directories, the config.json files and the      *)
(* child processes.  Each such access is one step of the model.            *)
(***************************************************************************)
EXTENDS Integers, FiniteSets, Sequences, TLC

\* ---------------------------------------------------------------- bounds
MaxSpawns == 2        \* processes spawned in one behaviour
MaxRequests == 2      \* requests admitted in one behaviour
MaxBody == 3          \* logs.txt: filler bytes up to MaxBody, and TailLimit +- MaxBody
MaxFiles == 2         \* files at the top of a working directory

\* ------------------------------------------------------------- constants
MaxRetries == 5       \* force_delete_directory(path, max_retries=5, ...)
TailLimit == 10000    \* get_logs: content[-10000:] if len(content) > 10000

Threads == {"h1", "h2"}                 \* concurrent request handlers
Tenants == {"alice", "bob"}             \* values of session['username']
Names == {"web"}                        \* server names
\* <name> of /api/server/<action>/<name> is any text without a slash; with
\* ".." os.path.join(user_dir, name) is UPLOAD_FOLDER itself
Parent == ".."
Keys == Tenants \X (Names \cup {Parent})   \* keys of `processes`
Procs == 1..MaxSpawns                   \* Popen objects, by pid
NoProc == 0                             \* processes.get(key) is None
NoKey == <<"", "">>
Actions == {"create", "start", "stop", "restart", "delete"}

\* config.json: the fields the lifecycle reads and writes.  pid = NoProc
\* stands for a record without the 'pid' field.  origin tells the record
\* that create_server writes (name, display_name, safe_name, type, port,
\* status, created_at) from the one load_server_config makes up (status,
\* type, port, created_at).
Missing == [status |-> "missing", pid |-> NoProc, origin |-> "none"]   \* no config.json
\* config.json opened with 'w' and not written yet, or overwritten in part:
\* json.load raises on it
Partial == [status |-> "partial", pid |-> NoProc, origin |-> "none"]
Stopped == [status |-> "stopped", pid |-> NoProc, origin |-> "create"]
Default == [status |-> "stopped", pid |-> NoProc, origin |-> "default"]

VARIABLES
    processes,   \* processes: key -> Popen handle (NoProc: key absent)
    dirs,        \* keys whose server directory exists on disk
    config,      \* key -> content of config.json (Missing: no file)
    alive,       \* p -> "none" (not spawned), "alive", "dead"
    procKey,     \* p -> the key the process was spawned for
    monitor,     \* p -> position of monitor_process(p, key, ...)
    stopIssued,  \* history: processes a stop_server called terminate() on
    stopDone,    \* history: processes a stop_server has cleaned up after
    raced,       \* history: keys a stop found unregistered while a start had staged
    registered,  \* history: processes ever stored in `processes`
    displaced,   \* history: handles removed from `processes` or replaced in it
    started,     \* history: processes whose start action returned success
    pc,          \* t -> position of handler thread t
    req,         \* t -> action of the request thread t serves
    key,         \* t -> (session['username'], server_name) of the request
    handle,      \* t -> local p of stop_server
    proc,        \* t -> local p of start_server
    cfg,         \* t -> local config of start_server / stop_server
    tries,       \* t -> loop index i of force_delete_directory
    killed,      \* t -> stop_server called p.kill()
    result,      \* t -> outcome the handler returns
    working,     \* t -> local working_dir of start_server
    main_file,   \* t -> local main_file of start_server
    failed,      \* t -> extraction or installation failed in this start_server
    archive,     \* key -> server.zip in the server directory
    ext,         \* key -> the directory extracted/ in the server directory
    top,         \* key -> the other files of the server directory
    extractions, \* history: key -> calls of extract_zip on the archive
    nreq,        \* requests admitted so far
    users,       \* usernames that have logged in (login sets session['username'])
    logFile,     \* get_logs: the logs.txt the query reads
    reply,       \* get_logs: what the query returns
    wd,          \* find_main_file: the directory it is called on
    mainFile     \* find_main_file: what it returns

registry == <<processes, registered, displaced, started>>
disk == <<dirs, config>>
children == <<alive, procKey>>
stops == <<stopIssued, stopDone, raced>>
env == <<nreq, users>>
locals == <<pc, req, key, handle, proc, cfg, tries, killed, result,
            working, main_file, failed>>
staging == <<archive, ext, top, extractions>>
queries == <<logFile, reply, wd, mainFile>>
vars == <<processes, dirs, config, alive, procKey, monitor, stopIssued,
          stopDone, raced, registered, displaced, started, pc, req, key, handle, proc, cfg,
          tries, killed, result, working, main_file, failed, archive, ext,
          top, extractions, nreq, users, logFile, reply, wd, mainFile>>

Spawned == {p \in Procs : alive[p] # "none"}

\* starts admitted that have not spawned their process yet
PendingStarts ==
    {t \in Threads : req[t] \in {"start", "restart"} /\ pc[t] \notin {"idle", "ret"}
                     /\ proc[t] = NoProc}

\* load_server_config: the parsed file, or the default record when the file
\* is missing or json.load raises
load_server_config(k) ==
    IF config[k] \in {Missing, Partial} THEN Default ELSE config[k]

\* the number of fields json.dump writes for a record
Size(r) == (IF r.origin = "create" THEN 7 ELSE 4) + (IF r.pid # NoProc THEN 1 ELSE 0)

\* save_server_config, first half: os.makedirs(dirname, exist_ok=True) makes
\* the server directory again when it has been removed, and open(path, 'w')
\* creates config.json or cuts it to length 0.
Open(k) ==
    /\ dirs' = dirs \cup {k}
    /\ config' = [config EXCEPT ![k] = Partial]

\* save_server_config, second half: json.dump(config, f) and the close of
\* the file write the text at offset 0 of the file opened before.  When
\* rmtree has removed the file since, the text goes to the unlinked file
\* and is lost.  When another save has written a longer text since, the end
\* of that text stays behind the new one and the file does not parse.
Dump(k, r) ==
    /\ config' = [config EXCEPT ![k] =
                     IF config[k] = Missing THEN Missing
                     ELSE IF config[k] # Partial /\ Size(config[k]) > Size(r)
                       THEN Partial
                       ELSE r]
    /\ UNCHANGED dirs

\* ------------------------------------------------- directories and files
\* A file of a working directory: its name, and whether its text holds
\* '__main__' or 'if __name__' (guard).
None == "None"                          \* Python's None
Unset == "unset"                        \* no value yet
PyNames == {"main.py", "app.py", "bot.py", "server.py", "index.py",
            "start.py", "run.py", "_boot.py", "test_server.py"}
OtherNames == {"notes.txt", "requirements.txt"}
FileNames == PyNames \cup OtherNames
EndsWithPy(n) == n \in PyNames           \* file.endswith('.py')
StartsWithUnderscore(n) == n = "_boot.py"   \* file.startswith('_')
File == [name : FileNames, guard : BOOLEAN]

\* A directory as os.walk(path) lists it top-down: the files of the
\* directory itself, then the files of the directories below it.
EmptyDir == [top |-> {}, sub |-> {}]
\* os.path.exists(os.path.join(path, filename))
Exists(d, n) == \E f \in d.top : f.name = n
\* the names os.walk's loop would return: .py, no leading underscore, and
\* the guard in the text
Candidates(fs) ==
    {f.name : f \in {g \in fs : /\ EndsWithPy(g.name)
                               /\ ~StartsWithUnderscore(g.name)
                               /\ g.guard}}

common_files == <<"main.py", "app.py", "bot.py", "server.py", "index.py", "start.py">>

\* find_main_file mutated so that the scan of the tree comes before the
\* list of common names
find_main_file_ScanFirst(d) ==
    LET hits == {i \in 1..Len(common_files) : Exists(d, common_files[i])}
        first == CHOOSE i \in hits : \A j \in hits : i <= j
    IN IF Candidates(d.top) # {} THEN Candidates(d.top)
       ELSE IF Candidates(d.sub) # {} THEN Candidates(d.sub)
       ELSE IF hits # {} THEN {common_files[first]}
       ELSE {None}

\* find_main_file(path): the values it can return.  The first loop returns
\* the first common name that exists in the directory itself.  os.walk
\* then yields the directory before the directories below it, and the
\* files of one directory in the order of os.listdir, which is arbitrary:
\* any candidate of the first level that has one can be the result.
find_main_file(d) ==
    LET hits == {i \in 1..Len(common_files) : Exists(d, common_files[i])}
        first == CHOOSE i \in hits : \A j \in hits : i <= j
    IN IF hits # {} THEN {common_files[first]}
       ELSE IF Candidates(d.top) # {} THEN Candidates(d.top)
       ELSE IF Candidates(d.sub) # {} THEN Candidates(d.sub)
       ELSE {None}

\* server.zip and extracted/: whether it is there, and the files in it
\* (for the archive: the files it unpacks to).
NoTree == [present |-> FALSE, top |-> {}, sub |-> {}]
\* an archive with the program and its requirements.txt at its root
Flat == [present |-> TRUE,
         top |-> {[name |-> "app.py", guard |-> TRUE],
                  [name |-> "requirements.txt", guard |-> FALSE]},
         sub |-> {}]
\* an archive with the program inside a folder
Nested == [present |-> TRUE, top |-> {},
           sub |-> {[name |-> "app.py", guard |-> TRUE]}]
Packages == {Flat, Nested}
\* a file uploaded as it is (not a .zip)
SingleFiles == {[name |-> "bot.py", guard |-> FALSE]}
\* test_server.py, the file start_server writes when it finds no main file
Placeholder == [name |-> "test_server.py", guard |-> TRUE]

\* ------------------------------------------------------------- logs.txt
\* The bytes of a log file: an ASCII letter, line feed, carriage return, and
\* 0xFF, which no UTF-8 text contains (the child process writes what it likes).
NoLog == [exists |-> FALSE, readable |-> FALSE, bytes |-> <<>>]
NoReply == [kind |-> "none", body |-> <<>>]

\* f.read() of open(log_file, "r", errors="ignore", encoding='utf-8'): the
\* decoder drops the bytes that are no UTF-8, then text mode turns "\r\n"
\* and a lone "\r" into "\n".
read(b) ==
    LET valid(u) == u # "FF"
        d == SelectSeq(b, valid)
        kept(i) == ~(d[i] = "CR" /\ i < Len(d) /\ d[i + 1] = "LF")
        at == SelectSeq([i \in 1..Len(d) |-> i], kept)
    IN [j \in 1..Len(at) |-> IF d[at[j]] = "CR" THEN "LF" ELSE d[at[j]]]

\* s[i:] of Python: a negative index counts from the end, and the bounds
\* are clamped to the sequence
Slice(s, i) ==
    LET lo == IF i < 0 THEN (IF Len(s) + i < 0 THEN 0 ELSE Len(s) + i)
                       ELSE (IF i > Len(s) THEN Len(s) ELSE i)
    IN SubSeq(s, lo + 1, Len(s))

\* pop(key, None) mutated so that it leaves the table as it is
Pop_Skip(k) ==
    /\ processes' = processes
    /\ displaced' = displaced
    /\ UNCHANGED <<registered, started>>

\* processes.pop(key, None): removes whatever handle the key holds
Pop(k) ==
    /\ processes' = [processes EXCEPT ![k] = NoProc]
    /\ displaced' = displaced \cup ({processes[k]} \ {NoProc})
    /\ UNCHANGED <<registered, started>>

\* The module is loaded: processes = {}; os.makedirs(UPLOAD_FOLDER); the
\* server directories are those left by earlier runs.
Idle ==
    /\ processes = [k \in Keys |-> NoProc]
    /\ alive = [p \in Procs |-> "none"]
    /\ procKey = [p \in Procs |-> NoKey]
    /\ monitor = [p \in Procs |-> "none"]
    /\ stopIssued = {}
    /\ stopDone = {}
    /\ raced = {}
    /\ registered = {}
    /\ displaced = {}
    /\ started = {}
    /\ pc = [t \in Threads |-> "idle"]
    /\ req = [t \in Threads |-> "none"]
    /\ key = [t \in Threads |-> NoKey]
    /\ handle = [t \in Threads |-> NoProc]
    /\ proc = [t \in Threads |-> NoProc]
    /\ cfg = [t \in Threads |-> Missing]
    /\ tries = [t \in Threads |-> 0]
    /\ killed = [t \in Threads |-> FALSE]
    /\ result = [t \in Threads |-> "none"]
    /\ working = [t \in Threads |-> "none"]
    /\ main_file = [t \in Threads |-> Unset]
    /\ failed = [t \in Threads |-> FALSE]
    /\ extractions = [k \in Keys |-> 0]
    /\ nreq = 0

\* The server directories left by earlier runs were created without a file.
Boot ==
    /\ Idle
    /\ users = {"alice"}
    /\ dirs \in SUBSET (users \X Names)
    /\ config = [k \in Keys |-> IF k \in dirs THEN Stopped ELSE Missing]
    /\ archive = [k \in Keys |-> NoTree]
    /\ ext = [k \in Keys |-> NoTree]
    /\ top = [k \in Keys |-> {}]

\* The server directories were created with a .zip, not started yet.
PackageBoot ==
    /\ Idle
    /\ users = {"alice"}
    /\ dirs = users \X Names
    /\ config = [k \in Keys |-> IF k \in dirs THEN Stopped ELSE Missing]
    /\ \E pkg \in Packages :
          archive = [k \in Keys |-> IF k \in dirs THEN pkg ELSE NoTree]
    /\ ext = [k \in Keys |-> NoTree]
    /\ top = [k \in Keys |-> {}]

\* no query is being answered
NoQuery ==
    /\ logFile = NoLog
    /\ reply = NoReply
    /\ wd = EmptyDir
    /\ mainFile = Unset

Init == Boot /\ NoQuery

PackageInit == PackageBoot /\ NoQuery

\* ------------------------------------------------------ request dispatch
FirstStep(a) ==
    CASE a = "create" -> "create_mkdir"
      [] a = "start" -> "sa_exists"
      [] a = "stop" -> "st_lookup"
      [] a = "restart" -> "st_lookup"
      [] a = "delete" -> "st_lookup"
      [] a = "logout" -> "lo_list"

\* Flask hands the request for action a on key k to handler thread t.
Admit(t, a, k) ==
    /\ pc[t] = "idle"
    /\ nreq < MaxRequests
    /\ a \in {"start", "restart"} =>
           Cardinality(Spawned) + Cardinality(PendingStarts) < MaxSpawns
    /\ req' = [req EXCEPT ![t] = a]
    /\ key' = [key EXCEPT ![t] = k]
    /\ pc' = [pc EXCEPT ![t] = FirstStep(a)]
    /\ nreq' = nreq + 1
    /\ UNCHANGED <<registry, disk, children, monitor, stops, staging, users,
                   handle, proc, cfg, tries, killed, result, working,
                   main_file, failed, queries>>

\* A request arrives: a tenant that is logged in acts on one of its servers.
Begin(t) == \E a \in Actions, k \in users \X Names : Admit(t, a, k)

\* The handler is at its return statement ("ret"); the response goes out
\* and the thread is free again.
Return(t) ==
    /\ pc[t] = "ret"
    /\ pc' = [pc EXCEPT ![t] = "idle"]
    /\ req' = [req EXCEPT ![t] = "none"]
    /\ key' = [key EXCEPT ![t] = NoKey]
    /\ handle' = [handle EXCEPT ![t] = NoProc]
    /\ proc' = [proc EXCEPT ![t] = NoProc]
    /\ cfg' = [cfg EXCEPT ![t] = Missing]
    /\ tries' = [tries EXCEPT ![t] = 0]
    /\ killed' = [killed EXCEPT ![t] = FALSE]
    /\ result' = [result EXCEPT ![t] = "none"]
    /\ working' = [working EXCEPT ![t] = "none"]
    /\ main_file' = [main_file EXCEPT ![t] = Unset]
    /\ failed' = [failed EXCEPT ![t] = FALSE]
    /\ UNCHANGED <<registry, disk, children, monitor, stops, env, staging,
                   queries>>

Goto(t, l) == pc' = [pc EXCEPT ![t] = l] /\ UNCHANGED result
Respond(t, r) ==
    /\ pc' = [pc EXCEPT ![t] = "ret"]
    /\ result' = [result EXCEPT ![t] = r]

\* ----------------------------------------------- dashboard: create_server
\* if not os.path.exists(server_dir): os.makedirs(server_dir)
CreateMkdir(t) ==
    /\ pc[t] = "create_mkdir"
    /\ IF key[t] \in dirs
         THEN Respond(t, "ok") /\ UNCHANGED dirs
         ELSE Goto(t, "create_save") /\ dirs' = dirs \cup {key[t]}
    /\ UNCHANGED <<registry, config, children, monitor, stops, env, queries, staging,
                   req, key, handle, proc, cfg, tries, killed, working,
                   main_file, failed>>

\* save_server_config(username, safe_name, {... "status": "stopped" ...})
CreateSave(t) ==
    /\ pc[t] = "create_save"
    /\ Open(key[t])
    /\ Goto(t, "create_dump")
    /\ UNCHANGED <<registry, children, monitor, stops, env, queries, staging,
                   req, key, handle, proc, cfg, tries, killed, working,
                   main_file, failed>>

\* ... file = request.files.get("server_files"); if file and file.filename:
CreateDump(t) ==
    /\ pc[t] = "create_dump"
    /\ Dump(key[t], Stopped)
    /\ \/ Respond(t, "ok")
       \/ Goto(t, "create_upload")
    /\ UNCHANGED <<registry, children, monitor, stops, env, queries, staging,
                   req, key, handle, proc, cfg, tries, killed, working,
                   main_file, failed>>

\* file.save(os.path.join(server_dir, "server.zip")), or under its own name;
\* it raises when the directory has been removed
CreateUpload(t) ==
    /\ pc[t] = "create_upload"
    /\ IF key[t] \notin dirs
         THEN Respond(t, "CreateFailed") /\ UNCHANGED <<archive, top>>
         ELSE /\ \/ /\ \E pkg \in Packages :
                         archive' = [archive EXCEPT ![key[t]] = pkg]
                    /\ UNCHANGED top
                 \/ /\ \E f \in SingleFiles :
                         top' = [top EXCEPT ![key[t]] = top[key[t]] \cup {f}]
                    /\ UNCHANGED archive
              /\ Respond(t, "ok")
    /\ UNCHANGED <<registry, disk, children, monitor, stops, env, queries, ext,
                   extractions, req, key, handle, proc, cfg, tries, killed,
                   working, main_file, failed>>

\* ------------------------------------------------- server_action: start
\* if not os.path.exists(server_dir): return 404
StartCheckExists(t) ==
    /\ pc[t] = "sa_exists"
    /\ IF key[t] \in dirs
         THEN Goto(t, "sa_running")
         ELSE Respond(t, "NotFound")
    /\ UNCHANGED <<registry, disk, children, monitor, stops, env, queries, staging,
                   req, key, handle, proc, cfg, tries, killed, working,
                   main_file, failed>>

\* the test mutated so that a registered key is started all the same
StartCheckRunning_Ignore(t) ==
    /\ pc[t] = "sa_running"
    /\ Goto(t, "ss_exists")
    /\ UNCHANGED <<registry, disk, children, monitor, stops, env, queries, staging,
                   req, key, handle, proc, cfg, tries, killed, working,
                   main_file, failed>>

\* if (session['username'], server_name) in processes: return 400
StartCheckRunning(t) ==
    /\ pc[t] = "sa_running"
    /\ IF processes[key[t]] # NoProc
         THEN Respond(t, "AlreadyRunning")
         ELSE Goto(t, "ss_exists")
    /\ UNCHANGED <<registry, disk, children, monitor, stops, env, queries, staging,
                   req, key, handle, proc, cfg, tries, killed, working,
                   main_file, failed>>

\* what the handler answers when start_server returns False
StartFailure(t) == IF req[t] = "restart" THEN "RestartFailed" ELSE "StartFailed"

\* ----------------------------------------------------------- start_server
\* if not os.path.exists(server_dir): return False
StartServerExists(t) ==
    /\ pc[t] = "ss_exists"
    /\ IF key[t] \in dirs
         THEN Goto(t, "ss_load")
         ELSE Respond(t, StartFailure(t))
    /\ UNCHANGED <<registry, disk, children, monitor, stops, env, queries, staging,
                   req, key, handle, proc, cfg, tries, killed, working,
                   main_file, failed>>

\* config = load_server_config(session['username'], server_name)
StartServerLoad(t) ==
    /\ pc[t] = "ss_load"
    /\ cfg' = [cfg EXCEPT ![t] = load_server_config(key[t])]
    /\ Goto(t, "ss_stage")
    /\ UNCHANGED <<registry, disk, children, monitor, stops, env, queries, staging,
                   req, key, handle, proc, tries, killed, working,
                   main_file, failed>>

\* the directory find_main_file(working_dir) walks
Listing(k, w) ==
    IF w = "extracted"
      THEN [top |-> ext[k].top, sub |-> ext[k].sub]
      ELSE [top |-> top[k],
            sub |-> IF ext[k].present THEN ext[k].top \cup ext[k].sub ELSE {}]

\* os.path.exists(working_dir)
DirExists(k, w) == k \in dirs /\ (w = "extracted" => ext[k].present)

\* with open(log_path, 'a') as log: ... if os.path.exists(zip_path): ...
\* else: working_dir = server_dir; install_requirements(working_dir)
\* The open raises when the directory is gone; the outer except returns
\* False.  install_requirements runs pip when the directory holds a
\* requirements.txt and swallows its failure and its timeout.
StartServerStage(t) ==
    /\ pc[t] = "ss_stage"
    /\ IF key[t] \notin dirs
         THEN Respond(t, StartFailure(t)) /\ UNCHANGED <<working, failed>>
         ELSE IF archive[key[t]].present
           THEN Goto(t, "ss_extracted") /\ UNCHANGED <<working, failed>>
           ELSE /\ working' = [working EXCEPT ![t] = "server"]
                /\ \E f \in (IF Exists(Listing(key[t], "server"), "requirements.txt")
                              THEN BOOLEAN ELSE {FALSE}) :
                       failed' = [failed EXCEPT ![t] = f]
                /\ Goto(t, "ss_find")
    /\ UNCHANGED <<registry, disk, children, monitor, stops, env, queries, staging,
                   req, key, handle, proc, cfg, tries, killed, main_file>>

\* if not os.path.exists(extract_dir): ... ; working_dir = extract_dir
StartServerExtracted(t) ==
    /\ pc[t] = "ss_extracted"
    /\ IF ext[key[t]].present
         THEN /\ working' = [working EXCEPT ![t] = "extracted"]
              /\ Goto(t, "ss_find")
         ELSE Goto(t, "ss_mkdir") /\ UNCHANGED working
    /\ UNCHANGED <<registry, disk, children, monitor, stops, env, queries, staging,
                   req, key, handle, proc, cfg, tries, killed, main_file,
                   failed>>

\* os.makedirs(extract_dir, exist_ok=True): makes the server directory as
\* well when it has been removed
StartServerMkdir(t) ==
    /\ pc[t] = "ss_mkdir"
    /\ dirs' = dirs \cup {key[t]}
    /\ ext' = [ext EXCEPT ![key[t]].present = TRUE]
    /\ Goto(t, "ss_extract")
    /\ UNCHANGED <<registry, config, children, monitor, stops, env, queries, archive,
                   top, extractions, req, key, handle, proc, cfg, tries,
                   killed, working, main_file, failed>>

\* the extraction mutated so that its failure ends start_server
StartServerExtract_Abort(t) ==
    /\ pc[t] = "ss_extract"
    /\ extractions' = [extractions EXCEPT ![key[t]] = @ + 1]
    /\ working' = [working EXCEPT ![t] = "extracted"]
    /\ \/ /\ archive[key[t]].present /\ ext[key[t]].present
          /\ ext' = [ext EXCEPT ![key[t]].top = @ \cup archive[key[t]].top,
                                ![key[t]].sub = @ \cup archive[key[t]].sub]
          /\ failed' = [failed EXCEPT ![t] = FALSE]
          /\ Goto(t, "ss_find")
       \/ /\ failed' = [failed EXCEPT ![t] = TRUE]
          /\ Respond(t, StartFailure(t))
          /\ UNCHANGED ext
    /\ UNCHANGED <<registry, disk, children, monitor, stops, env, queries, archive,
                   top, req, key, handle, proc, cfg, tries, killed,
                   main_file>>

\* try: extract_zip(zip_path, extract_dir); install_requirements(extract_dir)
\* except Exception as e: log.write(...)
\* working_dir = extract_dir
\* The archive unpacks and pip succeeds or is not needed; or the archive
\* unpacks and pip fails or runs into its timeout (install_requirements
\* swallows both); or ZipFile raises (no archive any more, a bad archive, no
\* room) with nothing unpacked.
StartServerExtract(t) ==
    /\ pc[t] = "ss_extract"
    /\ extractions' = [extractions EXCEPT ![key[t]] = @ + 1]
    /\ working' = [working EXCEPT ![t] = "extracted"]
    /\ \/ /\ archive[key[t]].present /\ ext[key[t]].present
          /\ ext' = [ext EXCEPT ![key[t]].top = @ \cup archive[key[t]].top,
                                ![key[t]].sub = @ \cup archive[key[t]].sub]
          /\ \E f \in (IF \E g \in archive[key[t]].top : g.name = "requirements.txt"
                        THEN BOOLEAN ELSE {FALSE}) :
                 failed' = [failed EXCEPT ![t] = f]
       \/ /\ failed' = [failed EXCEPT ![t] = TRUE]
          /\ UNCHANGED ext
    /\ Goto(t, "ss_find")
    /\ UNCHANGED <<registry, disk, children, monitor, stops, env, queries, archive,
                   top, req, key, handle, proc, cfg, tries, killed,
                   main_file>>

\* main_file = find_main_file(working_dir)
\* if not main_file: (write test_server.py unless it exists);
\*     main_file = "test_server.py"
\* In a working directory that is gone find_main_file finds nothing and the
\* open of test_server.py raises; the outer except returns False.
StartServerFind(t) ==
    /\ pc[t] = "ss_find"
    /\ IF ~DirExists(key[t], working[t])
         THEN /\ Respond(t, StartFailure(t))
              /\ UNCHANGED <<main_file, top, ext>>
         ELSE \E m \in find_main_file(Listing(key[t], working[t])) :
              /\ IF m # None
                   THEN /\ main_file' = [main_file EXCEPT ![t] = m]
                        /\ UNCHANGED <<top, ext>>
                   ELSE /\ main_file' = [main_file EXCEPT ![t] = Placeholder.name]
                        /\ IF working[t] = "extracted"
                             THEN /\ ext' = [ext EXCEPT ![key[t]].top = @ \cup {Placeholder}]
                                  /\ UNCHANGED top
                             ELSE /\ top' = [top EXCEPT ![key[t]] = @ \cup {Placeholder}]
                                  /\ UNCHANGED ext
              /\ Goto(t, "ss_spawn")
    /\ UNCHANGED <<registry, disk, children, monitor, stops, env, queries, archive,
                   extractions, req, key, handle, proc, cfg, tries, killed,
                   working, failed>>

\* the spawn mutated so that its except branch reports success
StartServerSpawn_Swallow(t) ==
    /\ pc[t] = "ss_spawn"
    /\ \/ /\ DirExists(key[t], working[t])
          /\ \E p \in Procs :
              /\ p = Cardinality(Spawned) + 1
              /\ alive' = [alive EXCEPT ![p] = "alive"]
              /\ procKey' = [procKey EXCEPT ![p] = key[t]]
              /\ proc' = [proc EXCEPT ![t] = p]
          /\ Goto(t, "ss_register")
       \/ /\ Respond(t, "ok")
          /\ UNCHANGED <<alive, procKey, proc>>
    /\ UNCHANGED <<registry, disk, monitor, stops, env, queries, staging,
                   req, key, handle, cfg, tries, killed, working,
                   main_file, failed>>

\* log_file = open(log_path, 'a');
\* p = subprocess.Popen(cmd, cwd=working_dir, ...)
\* The open raises when the server directory is gone and Popen when the
\* working directory is; the OS may refuse the spawn as well.  In each case
\* start_server returns False and no process exists.
StartServerSpawn(t) ==
    /\ pc[t] = "ss_spawn"
    /\ \/ /\ DirExists(key[t], working[t])
          /\ \E p \in Procs :
              /\ p = Cardinality(Spawned) + 1
              /\ alive' = [alive EXCEPT ![p] = "alive"]
              /\ procKey' = [procKey EXCEPT ![p] = key[t]]
              /\ proc' = [proc EXCEPT ![t] = p]
          /\ Goto(t, "ss_register")
       \/ /\ Respond(t, StartFailure(t))
          /\ UNCHANGED <<alive, procKey, proc>>
    /\ UNCHANGED <<registry, disk, monitor, stops, env, queries, staging,
                   req, key, handle, cfg, tries, killed, working,
                   main_file, failed>>

\* the store mutated so that the handle never reaches the table
StartServerRegister_Skip(t) ==
    /\ pc[t] = "ss_register"
    /\ Goto(t, "ss_save")
    /\ UNCHANGED <<registry, disk, children, monitor, stops, env, queries, staging,
                   req, key, handle, proc, cfg, tries, killed, working,
                   main_file, failed>>

\* processes[(session['username'], server_name)] = p
StartServerRegister(t) ==
    /\ pc[t] = "ss_register"
    /\ processes' = [processes EXCEPT ![key[t]] = proc[t]]
    /\ registered' = registered \cup {proc[t]}
    /\ displaced' = displaced \cup ({processes[key[t]]} \ {NoProc})
    /\ Goto(t, "ss_save")
    /\ UNCHANGED <<started, disk, children, monitor, stops, env, queries, staging,
                   req, key, handle, proc, cfg, tries, killed, working,
                   main_file, failed>>

\* config['status'] = 'running'; config['pid'] = p.pid; save_server_config
StartServerSave(t) ==
    /\ pc[t] = "ss_save"
    /\ Open(key[t])
    /\ Goto(t, "ss_dump")
    /\ UNCHANGED <<registry, children, monitor, stops, env, queries, staging,
                   req, key, handle, proc, cfg, tries, killed, working,
                   main_file, failed>>

StartServerDump(t) ==
    /\ pc[t] = "ss_dump"
    /\ Dump(key[t], [cfg[t] EXCEPT !.status = "running", !.pid = proc[t]])
    /\ Goto(t, "ss_monitor")
    /\ UNCHANGED <<registry, children, monitor, stops, env, queries, staging,
                   req, key, handle, proc, cfg, tries, killed, working,
                   main_file, failed>>

\* monitor_thread.start(); return True
StartServerMonitor(t) ==
    /\ pc[t] = "ss_monitor"
    /\ monitor' = [monitor EXCEPT ![proc[t]] = "wait"]
    /\ started' = IF req[t] = "start" THEN started \cup {proc[t]} ELSE started
    /\ Respond(t, "ok")
    /\ UNCHANGED <<processes, registered, displaced, disk, children, stops, env,
                   queries, staging,
                   req, key, handle, proc, cfg, tries, killed, working,
                   main_file, failed>>

\* ------------------------------------------------ start_server: the monitor
\* def monitor_process(proc, key, server_dir_path):
\*     proc.wait()
\*     if key in processes: processes.pop(key, None)
\*     config = load_server_config(session['username'], server_name) ...
\* proc.wait() returns once the process has exited; the removal then waits
\* for the thread to be scheduled.  The membership test and the pop are two
\* steps of the interpreter, but pop(key, None) takes whatever handle is
\* stored when it runs and does nothing on an absent key, so the pair has
\* the outcomes of one pop.
\* The monitor runs in a threading.Thread of its own.  Flask's `session` is
\* bound to the request context of the thread that serves the request; the
\* new thread has none, so evaluating session['username'] after the pop
\* raises RuntimeError (working outside of request context) and the thread
\* ends with lines 233-236 not executed: nothing is loaded, nothing saved.
monitor_process(p) ==
    /\ monitor[p] = "wait"
    /\ alive[p] = "dead"
    /\ Pop(procKey[p])
    /\ monitor' = [monitor EXCEPT ![p] = "ended"]
    /\ UNCHANGED <<disk, children, stops, env, staging, locals, queries>>

\* The supervised program ends on its own.
ProcExit(p) ==
    /\ alive[p] = "alive"
    /\ alive' = [alive EXCEPT ![p] = "dead"]
    /\ UNCHANGED <<registry, disk, procKey, monitor, stops, env, staging, locals,
                   queries>>

\* ------------------------------------------------------------ stop_server
\* stop_server returns to its caller in server_action: stop answers with the
\* result, restart goes on to start_server whatever the result (after
\* time.sleep(2)), delete goes on to the directory whatever the result;
\* logout clears the session and redirects whatever the result.
AfterStop(t, ok) ==
    /\ pc' = [pc EXCEPT ![t] = CASE req[t] = "stop" -> "ret"
                                 [] req[t] = "restart" -> "ss_exists"
                                 [] req[t] = "delete" -> "del_exists"
                                 [] req[t] = "logout" -> "ret"]
    /\ result' = [result EXCEPT ![t] =
                     CASE req[t] = "stop" -> (IF ok THEN "ok" ELSE "StopFailed")
                       [] req[t] = "logout" -> "ok"
                       [] OTHER -> result[t]]

\* a start action on key k is between `Found main file` (line 186) and the
\* store of its process in `processes` (line 218)
Staged(k) ==
    \E t \in Threads :
        req[t] = "start" /\ key[t] = k /\ pc[t] \in {"ss_spawn", "ss_register"}

\* the stop action looks the key up, finds nothing, and a start has staged
Races(t) == req[t] = "stop" /\ processes[key[t]] = NoProc /\ Staged(key[t])

\* the lookup mutated so that a stop that finds no handle while a start of
\* the key is under way reports a failure
StopLookup_Busy(t) ==
    /\ pc[t] = "st_lookup"
    /\ handle' = [handle EXCEPT ![t] = processes[key[t]]]
    /\ raced' = IF Races(t) THEN raced \cup {key[t]} ELSE raced
    /\ IF processes[key[t]] # NoProc
         THEN Goto(t, "st_terminate")
         ELSE AfterStop(t, ~Staged(key[t]))
    /\ UNCHANGED <<registry, disk, children, monitor, stopIssued, stopDone, env,
                   queries, staging, req, key, proc, cfg, tries, killed, working,
                   main_file, failed>>

\* the lookup mutated so that an absent handle is cleaned up after as well
StopLookup_Always(t) ==
    /\ pc[t] = "st_lookup"
    /\ handle' = [handle EXCEPT ![t] = processes[key[t]]]
    /\ IF processes[key[t]] # NoProc
         THEN Goto(t, "st_terminate")
         ELSE Goto(t, "st_load")
    /\ raced' = IF Races(t) THEN raced \cup {key[t]} ELSE raced
    /\ UNCHANGED <<registry, disk, children, monitor, stopIssued, stopDone, env,
                   queries, staging, req, key, proc, cfg, tries, killed, working,
                   main_file, failed>>

\* p = processes.get(key); if p: ... ; return True
StopLookup(t) ==
    /\ pc[t] = "st_lookup"
    /\ handle' = [handle EXCEPT ![t] = processes[key[t]]]
    /\ IF processes[key[t]] # NoProc
         THEN Goto(t, "st_terminate")
         ELSE AfterStop(t, TRUE)
    /\ raced' = IF Races(t) THEN raced \cup {key[t]} ELSE raced
    /\ UNCHANGED <<registry, disk, children, monitor, stopIssued, stopDone, env,
                   queries, staging, req, key, proc, cfg, tries, killed, working,
                   main_file, failed>>

\* p.terminate(); time.sleep(2)
\* Popen.terminate does nothing for a process that has exited.  For a live
\* one it sends SIGTERM, which the program obeys within the sleep or does
\* not; os.kill may raise (the except branch returns False).
StopTerminate(t) ==
    /\ pc[t] = "st_terminate"
    /\ stopIssued' = stopIssued \cup {handle[t]}
    /\ \/ /\ Goto(t, "st_kill")
          /\ UNCHANGED alive
       \/ /\ alive[handle[t]] = "alive"
          /\ alive' = [alive EXCEPT ![handle[t]] = "dead"]
          /\ Goto(t, "st_kill")
       \/ /\ alive[handle[t]] = "alive"
          /\ AfterStop(t, FALSE)
          /\ UNCHANGED alive
    /\ UNCHANGED <<registry, disk, procKey, monitor, stopDone, raced, env, queries, staging,
                   req, key, handle, proc, cfg, tries, killed, working,
                   main_file, failed>>

\* if p.poll() is None: p.kill(); time.sleep(1)
\* The result of the kill is not looked at: after the sleep the process is
\* gone, or it is still there (SIGKILL not yet delivered to a process
\* blocked in the kernel); os.kill may raise.
StopKill(t) ==
    /\ pc[t] = "st_kill"
    /\ IF alive[handle[t]] = "alive"
         THEN \/ /\ alive' = [alive EXCEPT ![handle[t]] = "dead"]
                 /\ killed' = [killed EXCEPT ![t] = TRUE]
                 /\ Goto(t, "st_pop")
              \/ /\ killed' = [killed EXCEPT ![t] = TRUE]
                 /\ Goto(t, "st_pop")
                 /\ UNCHANGED alive
              \/ /\ AfterStop(t, FALSE)
                 /\ UNCHANGED <<alive, killed>>
         ELSE /\ Goto(t, "st_pop")
              /\ UNCHANGED <<alive, killed>>
    /\ UNCHANGED <<registry, disk, procKey, monitor, stops, env, queries, staging,
                   req, key, handle, proc, cfg, tries, working,
                   main_file, failed>>

\* processes.pop(key, None)
StopPop(t) ==
    /\ pc[t] = "st_pop"
    /\ Pop(key[t])
    /\ Goto(t, "st_load")
    /\ UNCHANGED <<disk, children, monitor, stops, env, queries, staging,
                   req, key, handle, proc, cfg, tries, killed, working,
                   main_file, failed>>

\* config = load_server_config(session['username'], server_name)
StopLoad(t) ==
    /\ pc[t] = "st_load"
    /\ cfg' = [cfg EXCEPT ![t] = load_server_config(key[t])]
    /\ Goto(t, "st_save")
    /\ UNCHANGED <<registry, disk, children, monitor, stops, env, queries, staging,
                   req, key, handle, proc, tries, killed, working,
                   main_file, failed>>

\* config['status'] = 'stopped'; config.pop('pid', None);
\* save_server_config(...)
StopSave(t) ==
    /\ pc[t] = "st_save"
    /\ Open(key[t])
    /\ Goto(t, "st_dump")
    /\ UNCHANGED <<registry, children, monitor, stops, env, queries, staging,
                   req, key, handle, proc, cfg, tries, killed, working,
                   main_file, failed>>

\* the write mutated so that config.pop('pid', None) is left out
StopDump_KeepPid(t) ==
    /\ pc[t] = "st_dump"
    /\ Dump(key[t], [cfg[t] EXCEPT !.status = "stopped"])
    /\ stopDone' = stopDone \cup ({handle[t]} \ {NoProc})
    /\ AfterStop(t, TRUE)
    /\ UNCHANGED <<registry, children, monitor, stopIssued, raced, env, queries, staging,
                   req, key, handle, proc, cfg, tries, killed, working,
                   main_file, failed>>

\* ... save_server_config(...); return True
StopDump(t) ==
    /\ pc[t] = "st_dump"
    /\ Dump(key[t], [cfg[t] EXCEPT !.status = "stopped", !.pid = NoProc])
    /\ stopDone' = stopDone \cup ({handle[t]} \ {NoProc})
    /\ AfterStop(t, TRUE)
    /\ UNCHANGED <<registry, children, monitor, stopIssued, raced, env, queries, staging,
                   req, key, handle, proc, cfg, tries, killed, working,
                   main_file, failed>>

\* ------------------------------------------------ server_action: delete
\* os.path.exists(os.path.join(user_dir, name)), after get_user_server_path
\* has made user_dir: for ".." the path is UPLOAD_FOLDER, which is there
PathExists(k) == IF k[2] = Parent THEN TRUE ELSE k \in dirs
\* the server directories in the tree under os.path.join(user_dir, name)
Below(k) == IF k[2] = Parent THEN Tenants \X Names ELSE {k}

\* stop_server(server_name); time.sleep(1);
\* if os.path.exists(server_dir): ... else: return 404
DeleteExists(t) ==
    /\ pc[t] = "del_exists"
    /\ IF PathExists(key[t])
         THEN Goto(t, "fd_loop")
         ELSE Respond(t, "NotFound")
    /\ UNCHANGED <<registry, disk, children, monitor, stops, env, queries, staging,
                   req, key, handle, proc, cfg, tries, killed, working,
                   main_file, failed>>

\* force_delete_directory: for i in range(max_retries):
\*     if os.path.exists(path): ... (no sleep when the path is absent)
\* return False
ForceDeleteLoop(t) ==
    /\ pc[t] = "fd_loop"
    /\ IF tries[t] = MaxRetries
         THEN Respond(t, "DeleteFailed") /\ UNCHANGED tries
         ELSE IF PathExists(key[t])
           THEN Goto(t, "fd_rmtree") /\ UNCHANGED tries
           ELSE /\ tries' = [tries EXCEPT ![t] = tries[t] + 1]
                /\ UNCHANGED <<pc, result>>
    /\ UNCHANGED <<registry, disk, children, monitor, stops, env, queries, staging,
                   req, key, handle, proc, cfg, killed, working,
                   main_file, failed>>

\* shutil.rmtree(path, ignore_errors=True); return True
ForceDeleteRmtree(t) ==
    /\ pc[t] = "fd_rmtree"
    /\ dirs' = dirs \ Below(key[t])
    /\ config' = [k \in Keys |-> IF k \in Below(key[t]) THEN Missing ELSE config[k]]
    /\ archive' = [k \in Keys |-> IF k \in Below(key[t]) THEN NoTree ELSE archive[k]]
    /\ ext' = [k \in Keys |-> IF k \in Below(key[t]) THEN NoTree ELSE ext[k]]
    /\ top' = [k \in Keys |-> IF k \in Below(key[t]) THEN {} ELSE top[k]]
    /\ extractions' = [k \in Keys |->
                          IF k \in Below(key[t]) THEN 0 ELSE extractions[k]]
    /\ Goto(t, "del_pop")
    /\ UNCHANGED <<registry, children, monitor, stops, env, queries,
                   req, key, handle, proc, cfg, tries, killed, working,
                   main_file, failed>>

\* if key in processes: processes.pop(key, None); return success
DeletePop(t) ==
    /\ pc[t] = "del_pop"
    /\ Pop(key[t])
    /\ Respond(t, "ok")
    /\ UNCHANGED <<disk, children, monitor, stops, env, queries, staging,
                   req, key, handle, proc, cfg, tries, killed, working,
                   main_file, failed>>

\* ------------------------------------------------------------------ logout
\* servers_to_stop = [(user, name) for (user, name) in list(processes.keys())
\*                    if user == username]
\* for (user, server_name) in servers_to_stop: stop_server(server_name)
\* time.sleep(1); session.clear(); return redirect(...)
\* key[t] is the one key the tenant can have registered; the session that is
\* cleared is the cookie of this client, other clients of the tenant keep
\* theirs.
LogoutList(t) ==
    /\ pc[t] = "lo_list"
    /\ IF processes[key[t]] # NoProc
         THEN Goto(t, "st_lookup")
         ELSE Respond(t, "ok")
    /\ UNCHANGED <<registry, disk, children, monitor, stops, env, queries, staging,
                   req, key, handle, proc, cfg, tries, killed, working,
                   main_file, failed>>

\* ------------------------------------------------------------ the program
\* one step of a handler thread that serves a request
Step(t) ==
    \/ CreateMkdir(t) \/ CreateSave(t) \/ CreateDump(t) \/ CreateUpload(t)
    \/ StartCheckExists(t) \/ StartCheckRunning(t)
    \/ StartServerExists(t) \/ StartServerLoad(t) \/ StartServerStage(t)
    \/ StartServerExtracted(t) \/ StartServerMkdir(t)
    \/ StartServerExtract(t) \/ StartServerFind(t)
    \/ StartServerSpawn(t) \/ StartServerRegister(t) \/ StartServerSave(t)
    \/ StartServerDump(t) \/ StartServerMonitor(t)
    \/ StopLookup(t) \/ StopTerminate(t) \/ StopKill(t) \/ StopPop(t)
    \/ StopLoad(t) \/ StopSave(t) \/ StopDump(t)
    \/ DeleteExists(t) \/ ForceDeleteLoop(t) \/ ForceDeleteRmtree(t)
    \/ DeletePop(t)
    \/ Return(t)

Next ==
    \/ \E t \in Threads : Begin(t)
    \/ \E t \in Threads : Step(t)
    \/ \E p \in Procs : monitor_process(p)
    \/ \E p \in Procs : ProcExit(p)

Spec == Init /\ [][Next]_vars

\* the same program, started on servers that were created with an archive
PackageSpec == PackageInit /\ [][Next]_vars

\* The same program with its requests sent one after the other: a request
\* arrives when no handler is serving one.  The monitor threads and the
\* supervised processes run as before.
SeqBegin(t) ==
    /\ \A s \in Threads : pc[s] = "idle"
    /\ Begin(t)

SeqNext ==
    \/ \E t \in Threads : SeqBegin(t)
    \/ \E t \in Threads : Step(t)
    \/ \E p \in Procs : monitor_process(p)
    \/ \E p \in Procs : ProcExit(p)

SeqSpec == Init /\ [][SeqNext]_vars

\* The same program with two tenants logged in, each with the server name
\* "web"; the requests include logout, and delete with the name "..".
TenantBoot ==
    /\ Idle
    /\ users = Tenants
    /\ dirs \in SUBSET (users \X Names)
    /\ config = [k \in Keys |-> IF k \in dirs THEN Stopped ELSE Missing]
    /\ archive = [k \in Keys |-> NoTree]
    /\ ext = [k \in Keys |-> NoTree]
    /\ top = [k \in Keys |-> {}]

TenantInit == TenantBoot /\ NoQuery

TenantBegin(t) ==
    \/ \E a \in Actions \cup {"logout"}, k \in users \X Names : Admit(t, a, k)
    \/ \E k \in users \X {Parent} : Admit(t, "delete", k)

TenantNext ==
    \/ \E t \in Threads : TenantBegin(t)
    \/ \E t \in Threads : Step(t)
    \/ \E t \in Threads : LogoutList(t)
    \/ \E p \in Procs : monitor_process(p)
    \/ \E p \in Procs : ProcExit(p)

TenantSpec == TenantInit /\ [][TenantNext]_vars

\* Threads are scheduled by the OS: a handler that has a request and a
\* monitor thread keep taking steps.  Requests need not arrive and a
\* supervised program need not exit.
FairSpec ==
    /\ Spec
    /\ \A t \in Threads : WF_vars(Step(t))
    /\ \A p \in Procs : WF_vars(monitor_process(p))

\* ---------------------------------------------------------------- get_logs
\* the query mutated so that it keeps the head of the log
get_logs_Head ==
    /\ reply = NoReply
    /\ reply' =
         IF ~logFile.exists THEN [kind |-> "nologs", body |-> <<>>]
         ELSE IF ~logFile.readable THEN [kind |-> "error", body |-> <<>>]
         ELSE LET content == read(logFile.bytes)
              IN [kind |-> "text",
                  body |-> IF Len(content) > TailLimit
                             THEN SubSeq(content, 1, TailLimit)
                             ELSE content]
    /\ UNCHANGED <<registry, disk, children, monitor, stops, env, staging, locals,
                   logFile, wd, mainFile>>

\* if os.path.exists(log_file): content = f.read();
\*     return content[-10000:] if len(content) > 10000 else content
\* (except: "Error reading log file"); return "No logs available"
get_logs ==
    /\ reply = NoReply
    /\ reply' =
         IF ~logFile.exists THEN [kind |-> "nologs", body |-> <<>>]
         ELSE IF ~logFile.readable THEN [kind |-> "error", body |-> <<>>]
         ELSE LET content == read(logFile.bytes)
              IN [kind |-> "text",
                  body |-> IF Len(content) > TailLimit
                             THEN Slice(content, -TailLimit)
                             ELSE content]
    /\ UNCHANGED <<registry, disk, children, monitor, stops, env, staging, locals,
                   logFile, wd, mainFile>>

\* The log files the query is tried on: runs of bytes at both ends of a
\* body of letters whose length is small or close to the limit.
Pieces == {<<>>, <<"FF">>, <<"CR", "LF">>, <<"a", "CR">>, <<"LF", "FF", "a">>}
Bodies == (0..MaxBody) \cup ((TailLimit - MaxBody)..(TailLimit + MaxBody))
LogFiles ==
    {NoLog, [exists |-> TRUE, readable |-> FALSE, bytes |-> <<>>]} \cup
    {[exists |-> TRUE, readable |-> TRUE,
      bytes |-> h \o [i \in 1..n |-> "a"] \o t] :
        h \in Pieces, n \in Bodies, t \in Pieces}

LogInit ==
    /\ Boot /\ dirs = {}
    /\ logFile \in LogFiles
    /\ reply = NoReply
    /\ wd = EmptyDir
    /\ mainFile = Unset

LogSpec == LogInit /\ [][get_logs]_vars

\* -------------------------------------------------------- find_main_file
\* main_file = find_main_file(working_dir)
Resolve ==
    /\ mainFile = Unset
    /\ mainFile' \in find_main_file(wd)
    /\ UNCHANGED <<registry, disk, children, monitor, stops, env, staging, locals,
                   logFile, reply, wd>>

\* The directories the resolver is tried on: at most MaxFiles files of
\* different names in the directory itself, and files below it.
TopFiles == [name : FileNames \ {"test_server.py", "requirements.txt"},
             guard : BOOLEAN]
SubFiles == {[name |-> "run.py", guard |-> TRUE],
             [name |-> "main.py", guard |-> TRUE]}
Tops ==
    {t \in {{q[i] : i \in DOMAIN q} :
               q \in UNION {[1..n -> TopFiles] : n \in 0..MaxFiles}} :
        \A f, g \in t : f.name = g.name => f = g}
WorkingDirs == {[top |-> t, sub |-> u] : t \in Tops, u \in SUBSET SubFiles}

ResolveInit ==
    /\ Boot /\ dirs = {}
    /\ logFile = NoLog
    /\ reply = NoReply
    /\ wd \in WorkingDirs
    /\ mainFile = Unset

ResolveSpec == ResolveInit /\ [][Resolve]_vars

TypeOK ==
    /\ processes \in [Keys -> Procs \cup {NoProc}]
    /\ dirs \subseteq Keys
    /\ config \in [Keys -> [status : {"missing", "partial", "stopped", "running"},
                            pid : Procs \cup {NoProc},
                            origin : {"none", "create", "default"}]]
    /\ alive \in [Procs -> {"none", "alive", "dead"}]
    /\ monitor \in [Procs -> {"none", "wait", "ended"}]
    /\ started \subseteq registered
    /\ raced \subseteq Keys
    /\ nreq \in 0..MaxRequests
    /\ working \in [Threads -> {"none", "server", "extracted"}]
    /\ main_file \in [Threads -> FileNames \cup {Unset}]
    /\ \A k \in Keys :
          /\ archive[k] \in Packages \cup {NoTree}
          /\ ext[k].top \subseteq File /\ ext[k].sub \subseteq File
          /\ top[k] \subseteq File
          /\ extractions[k] \in 0..MaxRequests
          /\ k \notin dirs =>
                (archive[k] = NoTree /\ ext[k] = NoTree /\ top[k] = {})

\* ---------------------------------------------------------------- claims
\* what the registry holds under the key of process p
Entry(p) == IF alive[p] = "none" THEN NoProc ELSE processes[procKey[p]]
\* p ended by itself: no stop_server has signalled it
SelfExited(p) == alive[p] = "dead" /\ p \notin stopIssued
\* the processes spawned for key k
ProcsOf(k) == {p \in Procs : alive[p] # "none" /\ procKey[p] = k}
\* no start has spawned a process for p's key after p
Latest(p) == \A q \in ProcsOf(procKey[p]) : q <= p
\* thread t is inside a request (not yet at its return statement)
Serving(t) == pc[t] \notin {"idle", "ret"}
\* thread t is at the return statement of action a
Returns(t, a) == pc[t] = "ret" /\ req[t] = a
\* thread t takes the step at position l
Leaves(t, l) == pc[t] = l /\ pc'[t] # l

\* C1: two start actions that overlap on one key do not both spawn a
\* process: the second one finds the key registered and is answered
\* AlreadyRunning.
C1_NoDuplicateSpawn ==
    \A t1, t2 \in Threads :
        (/\ t1 # t2
         /\ req[t1] = "start" /\ req[t2] = "start"
         /\ key[t1] = key[t2]
         /\ Serving(t1) /\ Serving(t2))
        => ~(proc[t1] # NoProc /\ proc[t2] # NoProc)

\* C2: once the monitor of a process that exited on its own (no stop issued,
\* no other process ever spawned for the key, record still on disk) has
\* ended, the persisted record has status stopped and no pid.
C2_RecordConverges ==
    \A p \in Procs :
        (/\ SelfExited(p)
         /\ monitor[p] = "ended"
         /\ ProcsOf(procKey[p]) = {p}
         /\ config[procKey[p]].status \in {"stopped", "running"})
        => /\ config[procKey[p]].status = "stopped"
           /\ config[procKey[p]].pid = NoProc

\* C3: when the registry holds the handle of a process that has exited on
\* its own, with no stop issued for it, a state follows in which the
\* registry holds no handle for the key (so the `in processes` test of a
\* later start passes).
C3_RegistryConverges ==
    \A p \in Procs :
        (SelfExited(p) /\ Entry(p) = p) ~> (Entry(p) = NoProc)

C3_Witness ==
    \E p \in Procs :
        /\ SelfExited(p)
        /\ p \in registered
        /\ monitor[p] = "ended"
        /\ Entry(p) = NoProc

\* C4 as claimed: whenever start returns success, the registry holds the new
\* handle.
C4_HandleHeldAtReturn ==
    \A t \in Threads :
        (Returns(t, "start") /\ result[t] = "ok")
        => processes[key[t]] = proc[t]

\* C4 as amended: whenever start (or the start of a restart) returns success,
\* the new handle has been stored in the registry before, and it is still
\* there unless a monitor cleanup, a stop, a delete or another start on the
\* key has removed or replaced it since; a stop_server is on its terminate
\* path exactly when its lookup found a handle.
C4_RegisteredBeforeReturn ==
    /\ \A t \in Threads :
        (pc[t] = "ret" /\ req[t] \in {"start", "restart"} /\ result[t] = "ok")
        => /\ proc[t] \in registered
           /\ proc[t] \notin displaced => processes[key[t]] = proc[t]
    /\ \A t \in Threads :
        pc[t] \in {"st_terminate", "st_kill", "st_pop"} => handle[t] # NoProc

C4_Witness ==
    \E t, s \in Threads :
        /\ Returns(t, "start") /\ result[t] = "ok"
        /\ processes[key[t]] = proc[t]
        /\ req[s] = "stop" /\ pc[s] = "st_terminate"
        /\ handle[s] = proc[t]

\* C5: whenever delete returns success, no process spawned for the key is
\* alive.  (The claim adds that the directory is gone; a create that runs
\* next to the delete may make a new one, so the formula keeps to the
\* processes.)
C5_DeleteNoSurvivor ==
    \A t \in Threads :
        (Returns(t, "delete") /\ result[t] = "ok")
        => \A p \in ProcsOf(key[t]) : alive[p] # "alive"

\* C6: a removal by a monitor or by stop_server takes the handle of a live
\* process out of the registry only when it is the pop of a stop_server that
\* looked up that very handle.
C6_NoLostHandle ==
    [][\A p \in Procs :
        (/\ Entry(p) = p
         /\ alive[p] = "alive"
         /\ processes'[procKey[p]] = NoProc
         /\ \/ \E q \in Procs : monitor[q] = "wait" /\ monitor'[q] = "ended"
            \/ \E t \in Threads : Leaves(t, "st_pop"))
        => \E t \in Threads : Leaves(t, "st_pop") /\ handle[t] = p]_vars

\* C7: the step of stop_server that finds no handle for the key returns
\* success at once (the stop action answers ok) and leaves the registry,
\* the directories and the persisted records as they are.
C7_IdempotentStop ==
    [][\A t \in Threads :
        (Leaves(t, "st_lookup") /\ processes[key[t]] = NoProc)
        => /\ req[t] = "stop" => (pc'[t] = "ret" /\ result'[t] = "ok")
           /\ pc'[t] \in {"ret", "ss_exists", "del_exists"}
           /\ UNCHANGED <<processes, dirs, config>>]_vars

C7_Witness ==
    \E t \in Threads :
        /\ Returns(t, "stop") /\ result[t] = "ok"
        /\ handle[t] = NoProc
        /\ key[t] \in dirs

\* C8: when stop has sent terminate and kill and the process is still alive
\* at its return, stop answers with a failure.
C8_TerminationFailure ==
    \A t \in Threads :
        (/\ Returns(t, "stop")
         /\ killed[t]
         /\ alive[handle[t]] = "alive")
        => result[t] = "StopFailed"

\* C9: when stop or delete returns, with success or failure, the handle it
\* looked up is not left in the registry.
C9_NoHandleLeftBehind ==
    \A t \in Threads :
        (/\ pc[t] = "ret"
         /\ req[t] \in {"stop", "delete"}
         /\ handle[t] # NoProc)
        => processes[key[t]] # handle[t]

\* C10: with no start after process p, whichever of the two cleanups for p
\* (stop_server that looked up p, the monitor of p) runs second changes
\* neither the registry nor the persisted record.
C10_SecondCleanupNoOp ==
    [][\A p \in Procs :
        (alive[p] # "none" /\ Latest(p))
        => /\ (/\ monitor[p] = "ended"
               /\ \E t \in Threads :
                    /\ handle[t] = p
                    /\ \/ Leaves(t, "st_pop")
                       \/ Leaves(t, "st_save")
                       \/ Leaves(t, "st_dump"))
              => UNCHANGED <<processes, config>>
           /\ (/\ p \in stopDone
               /\ monitor[p] = "wait"
               /\ monitor'[p] = "ended")
              => UNCHANGED <<processes, config>>]_vars

\* C17: when get_logs has read the log, it returns the whole text if that
\* is at most TailLimit units long and otherwise exactly its last TailLimit
\* units; what it returns is a suffix of the text.  The text is the file as
\* read: units are the characters the decoder yields.
IsSuffix(r, c) ==
    /\ Len(r) <= Len(c)
    /\ r = SubSeq(c, Len(c) - Len(r) + 1, Len(c))

C20_FirstCommonName ==
    (mainFile # Unset /\ \E i \in 1..Len(common_files) : Exists(wd, common_files[i]))
    => \E i \in 1..Len(common_files) :
          /\ mainFile = common_files[i]
          /\ Exists(wd, common_files[i])
          /\ \A j \in 1..(i - 1) : ~Exists(wd, common_files[j])

C20_Witness ==
    /\ mainFile = "bot.py"
    /\ [name |-> "bot.py", guard |-> FALSE] \in wd.top
    /\ [name |-> "run.py", guard |-> TRUE] \in wd.top
    /\ [name |-> "main.py", guard |-> TRUE] \in wd.sub

\* C11: a load that finds config.json on disk returns the record that is on
\* disk, the one before or the one after a save that is under way; it never
\* returns the default record in place of a file that is half written.
C11_AtomicSave ==
    [][\A t \in Threads :
        ((Leaves(t, "ss_load") \/ Leaves(t, "st_load"))
         /\ config[key[t]] # Missing)
        => /\ config[key[t]] # Partial
           /\ cfg'[t] = config[key[t]]]_vars

\* C12: every record on disk has a pid exactly when its status is running.
C12_PidIffRunning ==
    \A k \in Keys :
        config[k].status \in {"running", "stopped"}
        => (config[k].pid # NoProc <=> config[k].status = "running")

C12_Witness ==
    \E t \in Threads :
        /\ Returns(t, "stop") /\ result[t] = "ok"
        /\ handle[t] # NoProc
        /\ cfg[t].pid = handle[t]
        /\ config[key[t]].status = "stopped"
        /\ config[key[t]].pid = NoProc

\* C13: when the start_server of a restart spawns its process, no process
\* of the key is alive and the registry holds no handle for the key.
C13_RestartSequential ==
    [][\A t \in Threads :
        (Leaves(t, "ss_spawn") /\ req[t] = "restart" /\ proc'[t] # NoProc)
        => /\ \A q \in ProcsOf(key[t]) : alive[q] # "alive"
           /\ processes[key[t]] = NoProc]_vars

\* C14: the start action answers NotFound when its test finds no server
\* directory and AlreadyRunning when its test finds a handle registered; the
\* step spawns nothing and leaves the registry, the directories and the
\* records as they are, and the action has spawned nothing when it returns.
C14_StartPreconditions ==
    [][\A t \in Threads :
        /\ (Leaves(t, "sa_exists") /\ key[t] \notin dirs)
           => /\ pc'[t] = "ret" /\ result'[t] = "NotFound"
              /\ UNCHANGED <<processes, dirs, config, alive, monitor>>
        /\ (Leaves(t, "sa_running") /\ processes[key[t]] # NoProc)
           => /\ pc'[t] = "ret" /\ result'[t] = "AlreadyRunning"
              /\ UNCHANGED <<processes, dirs, config, alive, monitor>>
        /\ (Returns(t, "start") /\ result[t] \in {"NotFound", "AlreadyRunning"})
           => proc[t] = NoProc]_vars

C14_Witness ==
    \E t \in Threads :
        /\ Returns(t, "start") /\ result[t] = "AlreadyRunning"
        /\ processes[key[t]] # NoProc
        /\ proc[t] = NoProc

\* a server directory as create_server leaves it when no file is uploaded,
\* with at most the test_server.py a start has written since
NoPackage(k) == ~archive[k].present /\ top[k] \subseteq {Placeholder}

\* C15: with the requests sent one after the other on a server created
\* without a file: a start that returns success has run test_server.py,
\* registered its process and saved a record with status running and the
\* pid; and when a stop returns after such a start, the record has status
\* stopped and no pid and the registry holds nothing for the key.
C15_StartThenStop ==
    /\ \A t \in Threads :
        (Returns(t, "start") /\ result[t] = "ok" /\ NoPackage(key[t]))
        => /\ main_file[t] = Placeholder.name
           /\ proc[t] \in registered
           /\ config[key[t]].status = "running"
           /\ config[key[t]].pid = proc[t]
    /\ \A t \in Threads :
        (/\ Returns(t, "stop")
         /\ result[t] = "ok"
         /\ NoPackage(key[t])
         /\ \E p \in started : procKey[p] = key[t])
        => /\ config[key[t]].status = "stopped"
           /\ config[key[t]].pid = NoProc
           /\ processes[key[t]] = NoProc

\* C16: the step of start_server in which the spawn fails returns a failure
\* and changes neither the registry nor the record, and no monitor is
\* started.
C16_SpawnFailure ==
    [][\A t \in Threads :
        (Leaves(t, "ss_spawn") /\ proc'[t] = NoProc)
        => /\ pc'[t] = "ret"
           /\ result'[t] \in {"StartFailed", "RestartFailed"}
           /\ UNCHANGED <<processes, registered, config, monitor, alive>>]_vars

C16_Witness ==
    \E t \in Threads :
        /\ Returns(t, "start") /\ result[t] = "StartFailed"
        /\ main_file[t] # Unset
        /\ DirExists(key[t], working[t])
        /\ proc[t] = NoProc
        /\ processes[key[t]] = NoProc
        /\ config[key[t]].status = "stopped"

\* C18: the archive of a server is extracted at most once.
C18_ExtractOnce ==
    \A k \in Keys : extractions[k] <= 1

\* C19: the extraction step, whether the extraction and the installation
\* succeed or fail, goes on to the search for the main file and sets no
\* result; after a failure the search, in a working directory that is
\* there, yields a main file and goes on to the spawn, and a spawn that the
\* OS grants goes on to the registration.
C19_StagingNonFatal ==
    [][\A t \in Threads :
        /\ Leaves(t, "ss_extract")
           => pc'[t] = "ss_find" /\ result'[t] = result[t]
        /\ (Leaves(t, "ss_find") /\ failed[t] /\ DirExists(key[t], working[t]))
           => pc'[t] = "ss_spawn" /\ main_file'[t] # Unset
        /\ (Leaves(t, "ss_spawn") /\ failed[t] /\ proc'[t] # NoProc)
           => pc'[t] = "ss_register"]_vars

C19_Witness ==
    \E t \in Threads :
        /\ Returns(t, "start") /\ result[t] = "ok"
        /\ failed[t]
        /\ extractions[key[t]] = 1
        /\ ext[key[t]].top = {Placeholder}
        /\ proc[t] \in registered

\* C21: a stop action whose lookup finds no handle while a start action on
\* the key has staged and not registered returns success at that step and
\* changes nothing else: the table, the processes, the records and the
\* start in flight are as before.
C21_StopMissesStart ==
    [][\A s \in Threads :
        (Leaves(s, "st_lookup") /\ Races(s))
        => /\ pc'[s] = "ret" /\ result'[s] = "ok" /\ handle'[s] = NoProc
           /\ key[s] \in raced'
           /\ UNCHANGED <<processes, alive, disk, proc>>
           /\ \A t \in Threads \ {s} : pc'[t] = pc[t]]_vars

\* both requests have returned; the start has registered its process after
\* the stop looked the key up, and the process runs on
C21_Witness ==
    \E k \in raced :
        /\ \A t \in Threads : pc[t] = "idle"
        /\ processes[k] # NoProc
        /\ alive[processes[k]] = "alive"
        /\ processes[k] \in started
        /\ stopIssued = {}

\* C22: while a delete of a key stands at its return with success and the
\* server directory is gone, a step that makes the directory or a
\* config.json for the key is a step of a create of that key.
C22_DeleteStays ==
    [][\A k \in Keys :
        (/\ \E d \in Threads :
               Returns(d, "delete") /\ result[d] = "ok" /\ key[d] = k
         /\ k \notin dirs
         /\ k \in dirs' \/ config'[k] # Missing)
        => \E t \in Threads :
               req[t] = "create" /\ key[t] = k /\ pc'[t] # pc[t]]_vars

\* C23: a step of a handler that serves a request of one tenant (start,
\* stop, restart, delete, logout, create) leaves the registry entry and the
\* config.json of every key of another tenant as they are.
C23_TenantIsolation ==
    [][\A t \in Threads : \A k \in Tenants \X Names :
        (pc[t] # "idle" /\ pc'[t] # pc[t] /\ k[1] # key[t][1])
        => processes'[k] = processes[k] /\ config'[k] = config[k]]_vars

\* C24: when the start_server of a start action is about to spawn
\* [python, main_file] with cwd = working_dir, a file of that name is in the working directory
\* itself.
C24_EntrypointExists ==
    \A t \in Threads :
        (req[t] = "start" /\ pc[t] = "ss_spawn" /\ DirExists(key[t], working[t]))
        => Exists(Listing(key[t], working[t]), main_file[t])

====
